---- MODULE Spec2Model ----
(***************************************************************************)
(* SAIFGuard: a FastAPI application (app.py) that forwards a user message  *)
(* to an ADK agent (saifguard/agent.py) and streams the agent's final      *)
(* responses back, and the tools the agent may call (google_search_tool,   *)
(* analysis_tool, gcp_project_tool), each a sequence of vendor calls.      *)
(*                                                                         *)
(* Spec     : the HTTP application, startup and /invoke requests.          *)
(* ConcSpec : the same, with several requests in flight at one time.       *)
(* ToolSpec : one tool invocation after another.                           *)
(***************************************************************************)
EXTENDS Integers, Sequences, FiniteSets, TLC

VARIABLES
    appPhase,      \* "starting" | "serving" | "failed": the FastAPI lifecycle
    createCount,   \* how many times SAIFGuardAgent.create_session has run
    agent,         \* the attributes create_session sets on the SAIFGuardAgent
    sessions,      \* the sessions held by the InMemorySessionService
    sessionState,  \* the state of the session created at startup
    reqs,          \* per connection slot: the /invoke request being served
    runLog,        \* the <<user_id, session_id>> of every runner.run call
    genDashboard,  \* config.GENERATE_DASHBOARD
    tool,          \* the tool being invoked, or "none"
    tpc,           \* the statement the invocation has reached
    pending,       \* the vendor call in flight, or "none"
    trace,         \* this invocation's vendor calls: <<"call", n>>, <<"ret", n>>
    arg,           \* the tool's argument
    frame,         \* the invocation's local variables
    result,        \* how the invocation ended: returned value or raised exception
    obs,           \* what this invocation's vendor calls were sent, returned and raised
    prevSaif       \* what the SAIF search of the previous invocation returned

appVars == <<appPhase, createCount, agent, sessions, sessionState, reqs, runLog>>
toolVars == <<genDashboard, tool, tpc, pending, trace, arg, frame, result, obs, prevSaif>>
vars == <<appVars, toolVars>>

----------------------------------------------------------------------------
(* Bounds *)

MaxEvents == 2        \* events one runner.run yields at most
MaxInFlight == 2      \* ConcSpec: /invoke requests in flight at one time

----------------------------------------------------------------------------
(* app.py *)

USER_ID == "user1"
SESSION_ID == "session1"
APP_NAME == "SAIFGuard"

Unset == "unset"
Unbound == "unbound"
NoExc == "none"

\* Request bodies (models/query_request.py): user_id and message
UserIds == {"user1", "user2"}
Messages == {"m1", "m2"}
QueryRequest == [user_id : UserIds, message : Messages]

\* Messages of the exceptions a vendor call can raise
ExcMsgs == {"boom"}

\* Runner events: is_final_response(), whether content is set, the part texts
Events ==
    { [final |-> TRUE,  content |-> TRUE,  parts |-> <<"a", "b">>],
      [final |-> TRUE,  content |-> TRUE,  parts |-> <<"c">>],
      [final |-> TRUE,  content |-> TRUE,  parts |-> <<>>],
      [final |-> TRUE,  content |-> FALSE, parts |-> <<>>],
      [final |-> FALSE, content |-> TRUE,  parts |-> <<"a">>] }

IdleReq ==
    [pc |-> "idle", request |-> Unset, status |-> 0, produced |-> <<>>,
     chunks |-> <<>>, response |-> Unbound, exc |-> NoExc]

\* "\n".join(texts)
RECURSIVE JoinNL(_)
JoinNL(texts) ==
    IF Len(texts) = 0 THEN ""
    ELSE IF Len(texts) = 1 THEN texts[1]
    ELSE texts[1] \o "\n" \o JoinNL(Tail(texts))

\* Mutant: the is_final_response() test is dropped
IsStreamed_AnyEvent(ev) == ev.content /\ Len(ev.parts) > 0

\* event.is_final_response() and event.content and event.content.parts
IsStreamed(ev) == ev.final /\ ev.content /\ Len(ev.parts) > 0

\* The attributes of the agent object that create_session assigns
AgentUnset ==
    [user_id |-> Unset, session_id |-> Unset, session_service |-> Unset,
     runner |-> Unset, session |-> Unset]

AgentReady ==
    /\ agent.user_id # Unset
    /\ agent.session_id # Unset
    /\ agent.session_service # Unset
    /\ agent.runner # Unset
    /\ agent.session # Unset

\* SAIFGuardAgent.create_session: the attributes after it ran; the session is
\* assigned only when session_service.create_session returned
create_session(user_id, session_id, ok) ==
    [user_id |-> user_id, session_id |-> session_id,
     session_service |-> "InMemorySessionService", runner |-> "Runner",
     session |-> IF ok THEN <<APP_NAME, user_id, session_id>> ELSE Unset]

\* startup_event: runs once before the application serves requests; when it
\* raises the application does not start
startup_event ==
    /\ appPhase = "starting"
    /\ \E ok \in BOOLEAN :
        /\ agent' = create_session(USER_ID, SESSION_ID, ok)
        /\ createCount' = createCount + 1
        /\ sessions' = IF ok THEN sessions \cup {<<APP_NAME, USER_ID, SESSION_ID>>}
                       ELSE sessions
        /\ sessionState' = IF ok THEN [task_status |-> "idle", user_message |-> Unset,
                                       agent_message |-> Unset]
                           ELSE sessionState
        /\ appPhase' = IF ok THEN "serving" ELSE "failed"
    /\ UNCHANGED <<reqs, runLog>>
    /\ UNCHANGED toolVars

\* Mutant: requests are served without waiting for the startup event
Accepting_BeforeStartup == TRUE

\* The application accepts requests once startup has completed
Accepting == appPhase = "serving"

\* invoke_agent: agent.invoke(...) only creates the generator, no statement of
\* its body runs, so the try block cannot raise; the StreamingResponse is
\* returned and the 200 response starts before the generator is iterated
invoke_agent(r, req) ==
    /\ Accepting
    /\ reqs[r].pc = "idle"
    /\ reqs' = [reqs EXCEPT ![r] = [IdleReq EXCEPT !.pc = "created",
                                                   !.request = req,
                                                   !.status = 200]]
    /\ UNCHANGED <<appPhase, createCount, agent, sessions, sessionState, runLog>>
    /\ UNCHANGED toolVars

Abort(r, e) == [reqs EXCEPT ![r].pc = "aborted", ![r].exc = e]

\* invoke, up to the first update_session: the user event carries the
\* state delta {"user:message": message}
invoke_user_event(r) ==
    /\ reqs[r].pc = "created"
    /\ \/ /\ AgentReady
          /\ sessionState' = [sessionState EXCEPT !.user_message = reqs[r].request.message]
          /\ reqs' = [reqs EXCEPT ![r].pc = "user_event_done"]
       \/ /\ \E e \in ExcMsgs : reqs' = Abort(r, e)
          /\ UNCHANGED sessionState
    /\ UNCHANGED <<appPhase, createCount, agent, sessions, runLog>>
    /\ UNCHANGED toolVars

\* Mutant: the run uses the user_id of the request body
RunIds_FromRequest(req) == <<req.user_id, agent.session_id>>

\* The user and session ids invoke passes to runner.run
RunIds(req) == <<agent.user_id, agent.session_id>>

\* invoke: runner.run(user_id=..., session_id=..., new_message=...) is called
invoke_run(r) ==
    /\ reqs[r].pc = "user_event_done"
    /\ LET ids == RunIds(reqs[r].request)
       IN /\ runLog' = runLog \cup {ids}
          /\ IF <<APP_NAME, ids[1], ids[2]>> \in sessions
             THEN reqs' = [reqs EXCEPT ![r].pc = "running"]
             ELSE reqs' = Abort(r, "Session not found")
    /\ UNCHANGED <<appPhase, createCount, agent, sessions, sessionState>>
    /\ UNCHANGED toolVars

\* What one runner event adds to the stream
Chunks(chunks, ev) ==
    IF IsStreamed(ev) THEN Append(chunks, JoinNL(ev.parts)) ELSE chunks

\* invoke: one iteration of the loop over runner.run
invoke_event(r, ev) ==
    /\ reqs[r].pc = "running"
    /\ Len(reqs[r].produced) < MaxEvents
    /\ reqs' = [reqs EXCEPT ![r].produced = Append(@, ev),
                            ![r].chunks = Chunks(@, ev),
                            ![r].response = IF IsStreamed(ev) THEN JoinNL(ev.parts) ELSE @]
    /\ UNCHANGED <<appPhase, createCount, agent, sessions, sessionState, runLog>>
    /\ UNCHANGED toolVars

\* invoke: runner.run raises while the response is being streamed
invoke_run_raises(r, e) ==
    /\ reqs[r].pc = "running"
    /\ reqs' = Abort(r, e)
    /\ UNCHANGED <<appPhase, createCount, agent, sessions, sessionState, runLog>>
    /\ UNCHANGED toolVars

\* invoke: the runner is exhausted
invoke_run_ends(r) ==
    /\ reqs[r].pc = "running"
    /\ reqs' = [reqs EXCEPT ![r].pc = "post_run"]
    /\ UNCHANGED <<appPhase, createCount, agent, sessions, sessionState, runLog>>
    /\ UNCHANGED toolVars

\* invoke, after the loop: the agent event carries {"agent:message": response};
\* response is unbound when no event was streamed
invoke_agent_event(r) ==
    /\ reqs[r].pc = "post_run"
    /\ \/ /\ reqs[r].response = Unbound
          /\ reqs' = Abort(r, "UnboundLocalError")
          /\ UNCHANGED sessionState
       \/ /\ reqs[r].response # Unbound
          /\ sessionState' = [sessionState EXCEPT !.agent_message = reqs[r].response]
          /\ reqs' = [reqs EXCEPT ![r].pc = "call_session"]
       \/ /\ reqs[r].response # Unbound
          /\ \E e \in ExcMsgs : reqs' = Abort(r, e)
          /\ UNCHANGED sessionState
    /\ UNCHANGED <<appPhase, createCount, agent, sessions, runLog>>
    /\ UNCHANGED toolVars

\* invoke: call_session reads the session back and prints it; the generator ends
call_session(r) ==
    /\ reqs[r].pc = "call_session"
    /\ \/ reqs' = [reqs EXCEPT ![r].pc = "done"]
       \/ \E e \in ExcMsgs : reqs' = Abort(r, e)
    /\ UNCHANGED <<appPhase, createCount, agent, sessions, sessionState, runLog>>
    /\ UNCHANGED toolVars

\* The connection closes and its slot serves the next request
close(r) ==
    /\ reqs[r].pc \in {"done", "aborted"}
    /\ reqs' = [reqs EXCEPT ![r] = IdleReq]
    /\ UNCHANGED <<appPhase, createCount, agent, sessions, sessionState, runLog>>
    /\ UNCHANGED toolVars


----------------------------------------------------------------------------
(* saifguard/config.py, prompts and the texts the vendor calls return *)

GOOGLE_SEARCH_SAIF_PROMPT == "<Task> Retrieve the latest SAIF documentation"
ANALYSIS_QUERY_PROMPT == "Inspect the files provided as a GCS bucket URI"
GCP_QUERY_PROMPT == "Inspect the GCP project assets provided"

Queries == {GOOGLE_SEARCH_SAIF_PROMPT, "what is SAIF"}
ProjectIds == {"p1"}
SearchTexts == {"saif-A", "saif-B"}
ReportTexts == {"report"}
DashboardTexts == {"rows"}
ResourceLists == {<<>>, <<"r1">>, <<"r1", "r2">>}

\* Strings that the code takes apart are sequences of characters
GS == <<"g", "s", ":", "/", "/">>
Slash == "/"

\* The GCS objects: the buckets that exist and the blob names of each
ExistingBuckets == {<<"b">>}
BlobsOf(bucket) == IF bucket = <<"b">> THEN << <<"f", "/", "x">>, <<"y">> >> ELSE <<>>

\* gcs_uri arguments: gs://b, gs://b/, gs://b/f, gs://b/f/
GcsUris ==
    { GS \o <<"b">>, GS \o <<"b", "/">>, GS \o <<"b", "/", "f">>,
      GS \o <<"b", "/", "f", "/">> }

----------------------------------------------------------------------------
(* Python string operations *)

StartsWith(s, p) == Len(p) <= Len(s) /\ SubSeq(s, 1, Len(p)) = p

\* s.replace(old, ""): every non-overlapping occurrence, left to right
RECURSIVE Remove(_, _)
Remove(s, old) ==
    IF s = <<>> THEN <<>>
    ELSE IF StartsWith(s, old) THEN Remove(SubSeq(s, Len(old) + 1, Len(s)), old)
    ELSE <<Head(s)>> \o Remove(Tail(s), old)

RECURSIVE LStrip(_, _)
LStrip(s, c) == IF s # <<>> /\ Head(s) = c THEN LStrip(Tail(s), c) ELSE s

RECURSIVE RStrip(_, _)
RStrip(s, c) ==
    IF s # <<>> /\ s[Len(s)] = c THEN RStrip(SubSeq(s, 1, Len(s) - 1), c) ELSE s

\* s.strip(c)
Strip(s, c) == RStrip(LStrip(s, c), c)

\* json.dumps of the resource list
RECURSIVE JoinComma(_)
JoinComma(xs) ==
    IF Len(xs) = 0 THEN ""
    ELSE IF Len(xs) = 1 THEN xs[1]
    ELSE xs[1] \o ", " \o JoinComma(Tail(xs))

JsonDump(xs) == "[" \o JoinComma(xs) \o "]"

----------------------------------------------------------------------------
(* The tools: google_search_tool.py, analysis_tool.py, gcp_project_tool.py *)

VendorCalls == {"search", "list_blobs", "asset_search", "report", "dashboard", "upload"}

NoResult == [kind |-> "none", value |-> Unset]
NoFrame ==
    [saif |-> Unset, resources |-> <<>>, bucket_name |-> <<>>, contents |-> <<>>,
     response |-> Unset]
NoObs ==
    [query |-> Unset, searchRet |-> Unset, searchExc |-> NoExc, listed |-> Unset,
     report |-> Unset, sent |-> <<>>, ownExc |-> NoExc, failed |-> {}]

\* The name each tool gives itself in its except clause
ToolLabel(t) ==
    CASE t = "google_search_tool" -> "Google Search tool"
      [] t = "analysis_tool" -> "analysis_tool"
      [] t = "gcp_project_tool" -> "GCP project tool"

\* f"An exception occurred while calling <label>: {e}"
ExcMessage(t, e) == "An exception occurred while calling " \o ToolLabel(t) \o ": " \o e

\* Mutant: the except clause re-raises
tool_except_reraise(t, e) == [kind |-> "raise", value |-> e]

\* except Exception as e: ... return message
tool_except(t, e) == [kind |-> "return", value |-> ExcMessage(t, e)]

\* bucket_name = gcs_uri.replace("gs://", "").strip("/")
BucketName(gcs_uri) == Strip(Remove(gcs_uri, GS), Slash)

\* file_uri = f"gs://{bucket_name}/{blob.name}"
FileUri(bucket_name, blob) == GS \o bucket_name \o <<Slash>> \o blob

SaifPart(saif) == [text |-> "LATEST SAIF RECOMMENDATIONS:\n" \o saif]

\* analysis_tool: the two parts appended for each blob
RECURSIVE DocParts(_, _)
DocParts(bucket_name, blobs) ==
    IF blobs = <<>> THEN <<>>
    ELSE << [doc_name |-> Head(blobs)], [file_uri |-> FileUri(bucket_name, Head(blobs))] >>
         \o DocParts(bucket_name, Tail(blobs))

\* Mutant: the recommendations of the previous invocation are used when
\* there are some
analysis_contents_cached(bucket_name, blobs, saif) ==
    << [text |-> ANALYSIS_QUERY_PROMPT] >> \o DocParts(bucket_name, blobs)
    \o << SaifPart(IF prevSaif # Unset THEN prevSaif ELSE saif) >>

\* analysis_tool: the contents of the report call
analysis_contents(bucket_name, blobs, saif) ==
    << [text |-> ANALYSIS_QUERY_PROMPT] >> \o DocParts(bucket_name, blobs) \o << SaifPart(saif) >>

\* gcp_project_tool: asset_dump_text
AssetDump(resources) ==
    IF resources # <<>> THEN JsonDump(resources)
    ELSE "No resources were found in the project."

\* gcp_project_tool: the contents of the report call
gcp_contents(resources, saif) ==
    << [text |-> GCP_QUERY_PROMPT],
       [text |-> "GCP Asset Inventory export:\n" \o AssetDump(resources)],
       SaifPart(saif) >>

\* gcp_project_tool: the contents of the dashboard call
dashboard_contents(report) == << [text |-> "\n# Vulnerabilities\n" \o report \o "\n"] >>

\* The query google_search_tool is called with
SearchQuery == IF tool = "google_search_tool" THEN arg ELSE GOOGLE_SEARCH_SAIF_PROMPT

\* Mutant: gcp_project_tool asks for the report before listing the resources
NextAfterSearch_SkipAssets(t) == IF t = "analysis_tool" THEN "list_blobs" ELSE "report"

\* The statement after saif_recommendations = google_search_tool(...)
NextAfterSearch(t) == IF t = "analysis_tool" THEN "list_blobs" ELSE "asset_search"

\* Mutant: a failed listing is tried again
NextAfterAssets_Retry(ok) == IF ok THEN "write_files" ELSE "asset_search"

\* The statement after _get_asset_inventory_resources, whether the listing
\* succeeded (ok) or its except clause returned []
NextAfterAssets(ok) == "write_files"

\* return v
Return(v) ==
    /\ result' = [kind |-> "return", value |-> v]
    /\ tpc' = "done"

\* A vendor call n comes back, with a value or an exception
Back(n) ==
    /\ pending = n
    /\ pending' = "none"
    /\ trace' = Append(trace, <<"ret", n>>)

ToolInvoke(t, a) ==
    /\ tool = "none"
    /\ tool' = t
    /\ arg' = a
    /\ tpc' = "search"
    /\ UNCHANGED <<genDashboard, pending, trace, frame, result, obs, prevSaif>>
    /\ UNCHANGED appVars

google_search_tool(query) == ToolInvoke("google_search_tool", query)

analysis_tool(gcs_uri) == ToolInvoke("analysis_tool", gcs_uri)

gcp_project_tool(gcp_project_id) == ToolInvoke("gcp_project_tool", gcp_project_id)

\* The invocation reaches a vendor call and issues it
issue_call ==
    /\ tool # "none"
    /\ tpc \in VendorCalls
    /\ pending = "none"
    /\ pending' = tpc
    /\ trace' = Append(trace, <<"call", tpc>>)
    /\ obs' = CASE tpc = "search" -> [obs EXCEPT !.query = SearchQuery]
                [] tpc = "list_blobs" -> [obs EXCEPT !.listed = frame.bucket_name]
                [] tpc = "report" -> [obs EXCEPT !.sent = frame.contents]
                [] OTHER -> obs
    /\ UNCHANGED <<genDashboard, tool, tpc, arg, frame, result, prevSaif>>
    /\ UNCHANGED appVars

\* google_search_tool hands v to its caller: response.text, or the message
\* of its except clause
SearchDone(v, e) ==
    /\ Back("search")
    /\ obs' = [obs EXCEPT !.searchRet = v, !.searchExc = e,
                        !.failed = IF e # NoExc THEN @ \cup {"search"} ELSE @]
    /\ IF tool = "google_search_tool"
       THEN Return(v) /\ UNCHANGED frame
       ELSE /\ frame' = [frame EXCEPT !.saif = v,
                           !.bucket_name = IF tool = "analysis_tool" THEN BucketName(arg) ELSE @]
            /\ tpc' = NextAfterSearch(tool)
            /\ UNCHANGED result
    /\ UNCHANGED <<genDashboard, tool, arg, prevSaif>>
    /\ UNCHANGED appVars

search_returns(text) == SearchDone(text, NoExc)

search_raises(e) == SearchDone(ExcMessage("google_search_tool", e), e)

\* analysis_tool: the blobs are listed and the contents built
list_blobs_returns ==
    /\ Back("list_blobs")
    /\ frame.bucket_name \in ExistingBuckets
    /\ frame' = [frame EXCEPT !.contents =
                    analysis_contents(frame.bucket_name, BlobsOf(frame.bucket_name), frame.saif)]
    /\ tpc' = "report"
    /\ UNCHANGED <<genDashboard, tool, arg, result, obs, prevSaif>>
    /\ UNCHANGED appVars

\* An exception reaches the tool's outer except clause
OuterExcept(n, e) ==
    /\ Back(n)
    /\ result' = tool_except(tool, e)
    /\ tpc' = "done"
    /\ obs' = [obs EXCEPT !.ownExc = IF n = "report" THEN e ELSE @,
                        !.failed = @ \cup {n}]
    /\ UNCHANGED <<genDashboard, tool, arg, frame, prevSaif>>
    /\ UNCHANGED appVars

list_blobs_raises(e) == OuterExcept("list_blobs", e)

\* _get_asset_inventory_resources returned: a list, or [] from its except
\* clause; asset_dump_text and contents are built
AssetsDone(resources, ok) ==
    /\ Back("asset_search")
    /\ frame' = [frame EXCEPT !.resources = resources,
                              !.contents = gcp_contents(resources, frame.saif)]
    /\ tpc' = NextAfterAssets(ok)
    /\ obs' = [obs EXCEPT !.failed = IF ok THEN @ ELSE @ \cup {"asset_search"}]
    /\ UNCHANGED <<genDashboard, tool, arg, result, prevSaif>>
    /\ UNCHANGED appVars

asset_search_returns(resources) == AssetsDone(resources, TRUE)

asset_search_raises == AssetsDone(<<>>, FALSE)

\* gcp_project_tool: asset_dump.txt and saif_recommendations.txt are written
write_files ==
    /\ tool = "gcp_project_tool"
    /\ tpc = "write_files"
    /\ \/ /\ tpc' = "report"
          /\ UNCHANGED <<result, obs>>
       \/ /\ \E e \in ExcMsgs : result' = tool_except(tool, e)
          /\ tpc' = "done"
          /\ obs' = [obs EXCEPT !.failed = @ \cup {"write_files"}]
    /\ UNCHANGED <<genDashboard, tool, pending, trace, arg, frame, prevSaif>>
    /\ UNCHANGED appVars

\* The report-generation call returns: analysis_tool returns response.text,
\* gcp_project_tool goes on to the dashboard when GENERATE_DASHBOARD is set
report_returns(text) ==
    /\ Back("report")
    /\ obs' = [obs EXCEPT !.report = text]
    /\ IF tool = "gcp_project_tool" /\ genDashboard
       THEN /\ frame' = [frame EXCEPT !.response = text,
                                      !.contents = dashboard_contents(text)]
            /\ tpc' = "dashboard"
            /\ UNCHANGED result
       ELSE /\ frame' = [frame EXCEPT !.response = text]
            /\ Return(text)
    /\ UNCHANGED <<genDashboard, tool, arg, prevSaif>>
    /\ UNCHANGED appVars

report_raises(e) == OuterExcept("report", e)

\* gcp_project_tool: response is assigned the dashboard model's answer
dashboard_returns(text) ==
    /\ Back("dashboard")
    /\ frame' = [frame EXCEPT !.response = text]
    /\ tpc' = "parse"
    /\ UNCHANGED <<genDashboard, tool, arg, result, obs, prevSaif>>
    /\ UNCHANGED appVars

\* Mutant: the dashboard call is not inside the dashboard step's try block
dashboard_raises_escapes == \E e \in ExcMsgs : OuterExcept("dashboard", e)

\* gcp_project_tool: the except clause of the dashboard step logs a warning,
\* then the tool returns response.text
dashboard_raises ==
    /\ Back("dashboard")
    /\ Return(frame.response)
    /\ obs' = [obs EXCEPT !.failed = @ \cup {"dashboard"}]
    /\ UNCHANGED <<genDashboard, tool, arg, frame, prevSaif>>
    /\ UNCHANGED appVars

\* gcp_project_tool: json.loads and the DataFrame; on an exception the
\* dashboard step's except clause, then return response.text
parse ==
    /\ tool = "gcp_project_tool"
    /\ tpc = "parse"
    /\ \/ /\ tpc' = "upload"
          /\ UNCHANGED <<result, obs>>
       \/ /\ Return(frame.response)
          /\ obs' = [obs EXCEPT !.failed = @ \cup {"parse"}]
    /\ UNCHANGED <<genDashboard, tool, pending, trace, arg, frame, prevSaif>>
    /\ UNCHANGED appVars

\* gcp_project_tool: table.to_gbq returned or raised; return response.text
upload_done(ok) ==
    /\ Back("upload")
    /\ Return(frame.response)
    /\ obs' = [obs EXCEPT !.failed = IF ok THEN @ ELSE @ \cup {"upload"}]
    /\ UNCHANGED <<genDashboard, tool, arg, frame, prevSaif>>
    /\ UNCHANGED appVars

\* The caller has the tool's result; the next invocation starts afresh
tool_reset ==
    /\ tpc = "done"
    /\ tool' = "none"
    /\ tpc' = "idle"
    /\ pending' = "none"
    /\ trace' = <<>>
    /\ arg' = Unset
    /\ frame' = NoFrame
    /\ result' = NoResult
    /\ obs' = NoObs
    /\ prevSaif' = IF obs.searchRet # Unset THEN obs.searchRet ELSE prevSaif
    /\ UNCHANGED genDashboard
    /\ UNCHANGED appVars

----------------------------------------------------------------------------
(* Specifications *)

AppInit ==
    /\ appPhase = "starting"
    /\ createCount = 0
    /\ agent = AgentUnset
    /\ sessions = {}
    /\ sessionState = [task_status |-> Unset, user_message |-> Unset, agent_message |-> Unset]
    /\ reqs = [r \in {1} |-> IdleReq]
    /\ runLog = {}

ToolIdle ==
    /\ tool = "none"
    /\ tpc = "idle"
    /\ pending = "none"
    /\ trace = <<>>
    /\ arg = Unset
    /\ frame = NoFrame
    /\ result = NoResult
    /\ obs = NoObs
    /\ prevSaif = Unset

\* Spec: the application serves one /invoke request after another
Init ==
    /\ AppInit
    /\ ToolIdle
    /\ genDashboard = FALSE

Next ==
    \/ startup_event
    \/ \E r \in DOMAIN reqs, req \in QueryRequest : invoke_agent(r, req)
    \/ \E r \in DOMAIN reqs : invoke_user_event(r)
    \/ \E r \in DOMAIN reqs : invoke_run(r)
    \/ \E r \in DOMAIN reqs, ev \in Events : invoke_event(r, ev)
    \/ \E r \in DOMAIN reqs, e \in ExcMsgs : invoke_run_raises(r, e)
    \/ \E r \in DOMAIN reqs : invoke_run_ends(r)
    \/ \E r \in DOMAIN reqs : invoke_agent_event(r)
    \/ \E r \in DOMAIN reqs : call_session(r)
    \/ \E r \in DOMAIN reqs : close(r)

Spec == Init /\ [][Next]_vars

\* ToolSpec: the agent runtime invokes one tool after another
ToolInit ==
    /\ AppInit
    /\ ToolIdle
    /\ genDashboard \in BOOLEAN

ToolNext ==
    \/ \E q \in Queries : google_search_tool(q)
    \/ \E u \in GcsUris : analysis_tool(u)
    \/ \E p \in ProjectIds : gcp_project_tool(p)
    \/ issue_call
    \/ \E t \in SearchTexts : search_returns(t)
    \/ \E e \in ExcMsgs : search_raises(e)
    \/ list_blobs_returns
    \/ \E e \in ExcMsgs : list_blobs_raises(e)
    \/ \E rs \in ResourceLists : asset_search_returns(rs)
    \/ asset_search_raises
    \/ write_files
    \/ \E t \in ReportTexts : report_returns(t)
    \/ \E e \in ExcMsgs : report_raises(e)
    \/ \E t \in DashboardTexts : dashboard_returns(t)
    \/ dashboard_raises
    \/ parse
    \/ \E ok \in BOOLEAN : upload_done(ok)
    \/ tool_reset

ToolSpec == ToolInit /\ [][ToolNext]_vars

\* ConcSpec: several /invoke requests are in flight; each StreamingResponse
\* iterates its generator on a thread of the pool, so the steps of the
\* requests interleave
ConcInit ==
    /\ appPhase = "starting"
    /\ createCount = 0
    /\ agent = AgentUnset
    /\ sessions = {}
    /\ sessionState = [task_status |-> Unset, user_message |-> Unset, agent_message |-> Unset]
    /\ reqs = [r \in 1..MaxInFlight |-> IdleReq]
    /\ runLog = {}
    /\ ToolIdle
    /\ genDashboard = FALSE

ConcSpec == ConcInit /\ [][Next]_vars

----------------------------------------------------------------------------
(* Claims about the application (Spec) *)

\* C1 (as stated): a request whose agent run raised is answered with status
\* 500 carrying the exception's message, never with a started 200 stream.
C1_Original ==
    \A r \in DOMAIN reqs :
        reqs[r].exc # NoExc => reqs[r].status = 500

\* "\n".join, folded from the left
C2_Join(parts) ==
    LET f[i \in 0..Len(parts)] ==
            IF i = 0 THEN ""
            ELSE IF i = 1 THEN parts[1]
            ELSE f[i - 1] \o "\n" \o parts[i]
    IN f[Len(parts)]

\* C2: the chunks streamed for a request are, in order, one per runner event
\* that is a final response with non-empty content parts, each the event's
\* part texts joined by a newline; the other events give no chunk.
C2_Stream ==
    \A r \in DOMAIN reqs :
        LET fin == SelectSeq(reqs[r].produced,
                             LAMBDA ev : ev.final /\ ev.content /\ ev.parts # <<>>)
        IN reqs[r].chunks = [i \in 1..Len(fin) |-> C2_Join(fin[i].parts)]

C2_Witness ==
    \E r \in DOMAIN reqs :
        /\ reqs[r].produced = << [final |-> FALSE, content |-> TRUE, parts |-> <<"a">>],
                                 [final |-> TRUE, content |-> TRUE, parts |-> <<"a", "b">>] >>
        /\ reqs[r].chunks = << "a\nb" >>
        /\ reqs[r].pc = "done"

\* C6: every run uses user id 'user1' and session id 'session1', whatever
\* user_id the request body carries, and no other session exists.
C6_SingleSession ==
    /\ runLog \subseteq {<<"user1", "session1">>}
    /\ sessions \subseteq {<<"SAIFGuard", "user1", "session1">>}
    /\ \A r \in DOMAIN reqs :
        reqs[r].pc \in {"running", "post_run", "call_session", "done"}
            => /\ runLog = {<<"user1", "session1">>}
               /\ sessions = {<<"SAIFGuard", "user1", "session1">>}

C6_Witness ==
    \E r \in DOMAIN reqs :
        /\ reqs[r].pc = "running"
        /\ reqs[r].request.user_id = "user2"
        /\ runLog = {<<"user1", "session1">>}

\* C7: create_session runs exactly once, before any request is handled, so
\* whenever invoke executes the agent's user_id, session_id, session_service,
\* runner and session are set.
C7_SessionReady ==
    /\ createCount <= 1
    /\ \A r \in DOMAIN reqs :
        reqs[r].pc # "idle"
            => /\ createCount = 1
               /\ appPhase = "serving"
               /\ agent.user_id = "user1"
               /\ agent.session_id = "session1"
               /\ agent.session_service # Unset
               /\ agent.runner # Unset
               /\ agent.session # Unset

C7_Witness ==
    \E r \in DOMAIN reqs :
        /\ reqs[r].pc = "user_event_done"
        /\ createCount = 1
        /\ sessionState.user_message = reqs[r].request.message

----------------------------------------------------------------------------
(* Claims about the tools (ToolSpec) *)

\* The names of the vendor calls issued so far, in order
CallNames == LET cs == SelectSeq(trace, LAMBDA x : x[1] = "call")
             IN [i \in 1..Len(cs) |-> cs[i][2]]

IsPrefix(s, t) == Len(s) <= Len(t) /\ s = SubSeq(t, 1, Len(s))

Returned == tpc = "done" /\ result.kind = "return"

\* C3: no tool propagates an exception, every invocation ends by returning
\* a value, and when the tool's own model call raises the value is
\* 'An exception occurred while calling <tool name>: <exception message>'.
C3_NoPropagation ==
    /\ result.kind # "raise"
    /\ tpc = "done" => result.kind = "return"
    /\ (tool # "none" /\ tpc # "done") => ENABLED ToolNext
    /\ obs.searchExc # NoExc =>
        obs.searchRet = "An exception occurred while calling Google Search tool: " \o obs.searchExc
    /\ (tpc = "done" /\ tool = "google_search_tool" /\ obs.searchExc # NoExc) =>
        result.value = "An exception occurred while calling Google Search tool: " \o obs.searchExc
    /\ (tpc = "done" /\ tool = "analysis_tool" /\ obs.ownExc # NoExc) =>
        result.value = "An exception occurred while calling analysis_tool: " \o obs.ownExc
    /\ (tpc = "done" /\ tool = "gcp_project_tool" /\ obs.ownExc # NoExc) =>
        result.value = "An exception occurred while calling GCP project tool: " \o obs.ownExc

C3_Witness ==
    /\ tool = "gcp_project_tool"
    /\ obs.failed = {"search", "asset_search", "report"}
    /\ result = [kind |-> "return",
                 value |-> "An exception occurred while calling GCP project tool: boom"]

\* C4 (as stated): whenever the report call of gcp_project_tool succeeded,
\* the tool returns the text of that report.
C4_Original ==
    (tool = "gcp_project_tool" /\ Returned /\ obs.report # Unset)
        => result.value = obs.report

\* C5: in gcp_project_tool the vendor calls are issued one after another in
\* the order search, asset listing, report, dashboard, upload; each starts
\* after the previous one came back; the dashboard call is issued only when
\* GENERATE_DASHBOARD is set and the report call succeeded.
C5_CallOrder ==
    tool = "gcp_project_tool" =>
        /\ IsPrefix(CallNames, <<"search", "asset_search", "report", "dashboard", "upload">>)
        /\ \A i \in 1..Len(trace) :
            IF i % 2 = 1 THEN trace[i][1] = "call"
            ELSE trace[i] = <<"ret", trace[i - 1][2]>>
        /\ (pending # "none") = (Len(trace) % 2 = 1)
        /\ (\E i \in 1..Len(trace) : trace[i] = <<"call", "dashboard">>)
            => (genDashboard /\ obs.report # Unset)

C5_Witness ==
    /\ tool = "gcp_project_tool"
    /\ tpc = "done"
    /\ obs.failed = {}
    /\ CallNames = <<"search", "asset_search", "report", "dashboard", "upload">>

\* C8: in analysis_tool and gcp_project_tool the SAIF search with
\* GOOGLE_SEARCH_SAIF_PROMPT has come back, in this invocation, before the
\* report call is issued, and the last part sent to the report call is
\* 'LATEST SAIF RECOMMENDATIONS:' followed by the text that search returned.
C8_FreshSaif ==
    (tool \in {"analysis_tool", "gcp_project_tool"}
     /\ \E i \in 1..Len(trace) : trace[i] = <<"call", "report">>)
        => /\ \E i, j \in 1..Len(trace) :
                /\ i < j
                /\ trace[i] = <<"ret", "search">>
                /\ trace[j] = <<"call", "report">>
           /\ obs.query = GOOGLE_SEARCH_SAIF_PROMPT
           /\ obs.searchRet # Unset
           /\ obs.sent # <<>>
           /\ obs.sent[Len(obs.sent)] =
                [text |-> "LATEST SAIF RECOMMENDATIONS:\n" \o obs.searchRet]

C8_Witness ==
    /\ tool = "analysis_tool"
    /\ pending = "report"
    /\ prevSaif = "saif-A"
    /\ obs.searchRet = "saif-B"
    /\ Len(obs.sent) = 6

\* The bucket a URI of the form gs://<bucket>/<folder>/ names
DocBucket(uri) ==
    LET rest == SubSeq(uri, Len(GS) + 1, Len(uri))
        k == CHOOSE i \in 1..Len(rest) : rest[i] = Slash /\ \A j \in 1..(i - 1) : rest[j] # Slash
    IN SubSeq(rest, 1, k - 1)

\* gs://<bucket>/<folder>/ with a bucket and a folder that hold no slash
IsDocumentedForm(uri) ==
    /\ StartsWith(uri, GS)
    /\ LET rest == SubSeq(uri, Len(GS) + 1, Len(uri))
       IN /\ Len(rest) >= 4
          /\ rest[Len(rest)] = Slash
          /\ Cardinality({i \in 1..Len(rest) : rest[i] = Slash}) = 2
          /\ rest[1] # Slash
          /\ rest[Len(rest) - 1] # Slash

\* C9 (as stated): for a gcs_uri gs://<bucket>/<folder>/ analysis_tool
\* lists the blobs of the bucket <bucket>, and every file URI it sends is
\* gs://<bucket>/<blob name> for a blob of that bucket.
C9_Original ==
    (tool = "analysis_tool" /\ IsDocumentedForm(arg) /\ obs.listed # Unset)
        => /\ obs.listed = DocBucket(arg)
           /\ \A i \in 1..Len(obs.sent) :
                "file_uri" \in DOMAIN obs.sent[i] =>
                    \E k \in 1..Len(BlobsOf(DocBucket(arg))) :
                        obs.sent[i].file_uri =
                            GS \o DocBucket(arg) \o <<Slash>> \o BlobsOf(DocBucket(arg))[k]

\* C10: in one tool invocation each vendor call is issued at most once.
C10_AtMostOnce ==
    \A n \in VendorCalls :
        Cardinality({i \in 1..Len(trace) : trace[i] = <<"call", n>>}) <= 1

C10_Witness ==
    /\ tool = "gcp_project_tool"
    /\ tpc = "done"
    /\ obs.failed = {"asset_search", "upload"}
    /\ Len(trace) = 10

\* C11: with GENERATE_DASHBOARD set, a failure of a dashboard step (the
\* dashboard call, parsing and table building, the upload) stays in that
\* step: gcp_project_tool does not raise, does not return its
\* 'An exception occurred while calling GCP project tool' message, and
\* returns the text of a model response.
C11_DashboardContained ==
    (tool = "gcp_project_tool" /\ tpc = "done"
     /\ obs.failed \cap {"dashboard", "parse", "upload"} # {})
        => /\ genDashboard
           /\ result.kind = "return"
           /\ \A e \in ExcMsgs :
                result.value # "An exception occurred while calling GCP project tool: " \o e
           /\ result.value \in ReportTexts \cup DashboardTexts
           /\ result.value = frame.response

C11_Witness ==
    /\ tool = "gcp_project_tool"
    /\ tpc = "done"
    /\ genDashboard
    /\ obs.failed = {"dashboard"}
    /\ result = [kind |-> "return", value |-> "report"]

----------------------------------------------------------------------------
(* Claims about concurrent requests (ConcSpec) *)

\* C12 (as stated): with two or more requests in flight, from a request's
\* own user event until its run starts the session's user:message is that
\* request's message, so it is when the runner starts for the request.
C12_Original ==
    \A r \in DOMAIN reqs :
        reqs[r].pc = "user_event_done"
            => sessionState.user_message = reqs[r].request.message

====
